---- MODULE Spec2Model ----
(***************************************************************************)
(* Reversi / Othello for the terminal: the game-state engine of the final  *)
(* revision of the program (board, legal-move enumeration, disk flipping,  *)
(* the view state machine driven by key messages, and the greedy computer  *)
(* player).  Rendering (View, styles) and the window size are left out:    *)
(* they never feed back into the state modelled here.                      *)
(***************************************************************************)
EXTENDS Integers, Sequences, FiniteSets, TLC

VARIABLES
    grid,             \* model.grid: grid[y][x], a player or Blank
    selectedPoint,    \* model.selectedPoint
    view,             \* model.view
    currentPlayer,    \* model.currentPlayer
    disksFlipped,     \* model.disksFlipped (a list of points)
    availablePoints,  \* model.availablePoints (a list of points)
    rules,            \* model.rules
    playerMode,       \* model.playerMode
    quit,             \* TRUE once Update has returned tea.Quit
    placed,           \* history: the points written by takeTurn in this session
    call              \* which function the last step of SpecFn applied ("" in Spec)

vars == <<grid, selectedPoint, view, currentPlayer, disksFlipped, availablePoints,
          rules, playerMode, quit, placed, call>>

\* The fields of the program's model struct (everything but the history).
modelVars == <<grid, selectedPoint, view, currentPlayer, disksFlipped,
               availablePoints, rules, playerMode>>

----------------------------------------------------------------------------
(* Program constants *)

gridWidth == 8
gridHeight == 8

DarkPlayer == 0
LightPlayer == 1
Blank == -1

ReversiRules == 0
OthelloRules == 1

OnePlayer == 0
TwoPlayer == 1

PointSelection == "PointSelection"
PointSelectionComputer == "PointSelectionComputer"
PointConfirmation == "PointConfirmation"
TitleView == "TitleView"
QuitConfirmation == "QuitConfirmation"
GameOverView == "GameOverView"
PassView == "PassView"

Views == {PointSelection, PointSelectionComputer, PointConfirmation, TitleView,
          QuitConfirmation, GameOverView, PassView}

Players == {DarkPlayer, LightPlayer}
Rows == 0 .. (gridHeight - 1)
Cols == 0 .. (gridWidth - 1)

vector2d(x, y) == [x |-> x, y |-> y]

Points == {vector2d(x, y) : x \in Cols, y \in Rows}

\* The key messages Update distinguishes ("x" stands for any other key).
Keys == {"ctrl+c", "q", "up", "w", "down", "s", "left", "a", "right", "d",
         "enter", " ", "r", "p", "x"}

----------------------------------------------------------------------------
(* Helpers on lists *)

Range(s) == {s[k] : k \in 1 .. Len(s)}

Contains(s, e) == \E k \in 1 .. Len(s) : s[k] = e

NoDuplicates(s) == \A i, j \in 1 .. Len(s) : s[i] = s[j] => i = j

IsPrefix(s, t) == Len(s) <= Len(t) /\ \A k \in 1 .. Len(s) : s[k] = t[k]

\* The position of a point in a row-major scan of the grid.
scanIndex(p) == p.y * gridWidth + p.x

\* The points of S listed in row-major order.
RECURSIVE scanOrder(_)
scanOrder(S) ==
    IF S = {} THEN <<>>
    ELSE LET first == CHOOSE p \in S : \A q \in S : scanIndex(p) <= scanIndex(q)
         IN  <<first>> \o scanOrder(S \ {first})

----------------------------------------------------------------------------
(* The board *)

\* Variant of newGrid with the colours of the four seeded disks exchanged.
newGridSwapped(r) ==
    [i \in Rows |-> [j \in Cols |->
        IF r = OthelloRules /\ (<<i, j>> = <<3, 3>> \/ <<i, j>> = <<4, 4>>)
            THEN DarkPlayer
        ELSE IF r = OthelloRules /\ (<<i, j>> = <<3, 4>> \/ <<i, j>> = <<4, 3>>)
            THEN LightPlayer
        ELSE Blank]]

newGrid(r) ==
    [i \in Rows |-> [j \in Cols |->
        IF r = OthelloRules /\ (<<i, j>> = <<3, 3>> \/ <<i, j>> = <<4, 4>>)
            THEN LightPlayer
        ELSE IF r = OthelloRules /\ (<<i, j>> = <<3, 4>> \/ <<i, j>> = <<4, 3>>)
            THEN DarkPlayer
        ELSE Blank]]

isPointInsideGrid(p) ==
    p.x >= 0 /\ p.x < gridWidth /\ p.y >= 0 /\ p.y < gridHeight

getNonBlankPoints(g) ==
    scanOrder({p \in Points : g[p.y][p.x] # Blank})

directions ==
    << vector2d(0, 1), vector2d(1, 0), vector2d(1, 1), vector2d(0, -1),
       vector2d(-1, 0), vector2d(-1, -1), vector2d(1, -1), vector2d(-1, 1) >>

\* Variant of walkDirection that keeps the collected disks when the run ends at
\* a blank cell (the test for the player's own disk left out).
RECURSIVE walkDirectionNoOwner(_, _, _, _, _)
walkDirectionNoOwner(g, currentPoint, d, player, pointsToFlip) ==
    LET next == vector2d(currentPoint.x + d.x, currentPoint.y + d.y) IN
    IF ~isPointInsideGrid(next) THEN <<>>
    ELSE IF g[next.y][next.x] = Blank THEN pointsToFlip
    ELSE IF g[next.y][next.x] = player THEN pointsToFlip
    ELSE walkDirectionNoOwner(g, next, d, player, Append(pointsToFlip, next))

\* The inner loop of getPointsToFlip for one direction d, entered at
\* currentPoint with the opposing disks collected so far.
RECURSIVE walkDirection(_, _, _, _, _)
walkDirection(g, currentPoint, d, player, pointsToFlip) ==
    LET next == vector2d(currentPoint.x + d.x, currentPoint.y + d.y) IN
    IF ~isPointInsideGrid(next) THEN <<>>
    ELSE IF g[next.y][next.x] = Blank THEN <<>>
    ELSE IF g[next.y][next.x] = player THEN pointsToFlip
    ELSE walkDirection(g, next, d, player, Append(pointsToFlip, next))

RECURSIVE flipsFromDirection(_, _, _, _)
flipsFromDirection(g, point, player, k) ==
    IF k > Len(directions) THEN <<>>
    ELSE walkDirection(g, point, directions[k], player, <<>>)
            \o flipsFromDirection(g, point, player, k + 1)

getPointsToFlip(g, point, player) ==
    IF ~isPointInsideGrid(point) THEN <<>>
    ELSE flipsFromDirection(g, point, player, 1)

\* Variant of flip that takes the captured disks off the board.
flipRemoves(g, points, player) ==
    [i \in Rows |-> [j \in Cols |->
        IF Contains(points, vector2d(j, i)) THEN Blank ELSE g[i][j]]]

\* Variant of flip whose loop stops after the first point.
flipOnlyFirst(g, points, player) ==
    [i \in Rows |-> [j \in Cols |->
        IF points # <<>> /\ points[1] = vector2d(j, i)
        THEN player ELSE g[i][j]]]

\* Variant of flip whose loop starts at the second point.
flipSkipFirst(g, points, player) ==
    [i \in Rows |-> [j \in Cols |->
        IF \E k \in 2 .. Len(points) : points[k] = vector2d(j, i)
        THEN player ELSE g[i][j]]]

flip(g, points, player) ==
    [i \in Rows |-> [j \in Cols |->
        IF Contains(points, vector2d(j, i)) THEN player ELSE g[i][j]]]

\* Variant of computeScores whose loop starts at the second row.
computeScoresFromSecondRow(g) ==
    [p \in Players |-> Cardinality({q \in Points : q.y >= 1 /\ g[q.y][q.x] = p})]

computeScores(g) ==
    [p \in Players |-> Cardinality({q \in Points : g[q.y][q.x] = p})]

\* Variant of centrePoints whose last point lies one row higher.
centrePointsShifted ==
    << vector2d(3, 3), vector2d(4, 4), vector2d(3, 4), vector2d(4, 2) >>

centrePoints ==
    << vector2d(3, 3), vector2d(4, 4), vector2d(3, 4), vector2d(4, 3) >>

\* Variant of neighborsOf that leaves out the diagonal neighbours.
neighborsOrthogonal(nonBlankPoints) ==
    {vector2d(nonBlankPoints[k].x + j, nonBlankPoints[k].y + i) :
        <<k, i, j>> \in {t \in (1 .. Len(nonBlankPoints)) \X (-1 .. 1) \X (-1 .. 1) :
                            (t[2] # 0 \/ t[3] # 0) /\ (t[2] = 0 \/ t[3] = 0)}}

\* The keys of the neighbours map built from the non-blank points.
neighborsOf(nonBlankPoints) ==
    {vector2d(nonBlankPoints[k].x + j, nonBlankPoints[k].y + i) :
        <<k, i, j>> \in {t \in (1 .. Len(nonBlankPoints)) \X (-1 .. 1) \X (-1 .. 1) :
                            t[2] # 0 \/ t[3] # 0}}

\* Variant of filterNeighbors without the test that the point flips a disk.
filterNeighborsAnyBlank(g, neighbors, player) ==
    {n \in neighbors :
        /\ isPointInsideGrid(n)
        /\ g[n.y][n.x] = Blank}

\* The keys of the filteredNeighbors map.
filterNeighbors(g, neighbors, player) ==
    {n \in neighbors :
        /\ isPointInsideGrid(n)
        /\ g[n.y][n.x] = Blank
        /\ Len(getPointsToFlip(g, n, player)) > 0}

\* filteredNeighborsList: the keys of a map.  Go leaves the iteration order of
\* a map unspecified; the list is kept here in row-major order, and the one
\* reader that depends on the order (computeBestPoint) ranges over the
\* enumerations given by availableEnumerations.
mapKeysList(S) == scanOrder(S)

\* Variant of getAvailablePoints whose centre-square phase ends after 3 disks.
getAvailablePointsThree(g, player, r) ==
    LET nonBlankPoints == getNonBlankPoints(g) IN
    IF r = ReversiRules /\ Len(nonBlankPoints) < 3
    THEN SelectSeq(centrePoints,
                   LAMBDA p : isPointInsideGrid(p) /\ g[p.y][p.x] = Blank)
    ELSE mapKeysList(filterNeighbors(g, neighborsOf(nonBlankPoints), player))

getAvailablePoints(g, player, r) ==
    LET nonBlankPoints == getNonBlankPoints(g) IN
    IF r = ReversiRules /\ Len(nonBlankPoints) < 4
    THEN SelectSeq(centrePoints,
                   LAMBDA p : isPointInsideGrid(p) /\ g[p.y][p.x] = Blank)
    ELSE mapKeysList(filterNeighbors(g, neighborsOf(nonBlankPoints), player))

\* s with its k-th element moved to the front.
moveToFront(s, k) ==
    <<s[k]>> \o SubSeq(s, 1, k - 1) \o SubSeq(s, k + 1, Len(s))

\* The orders in which getAvailablePoints(g, player, r) may list its result:
\* the literal order in the centre-square phase, any order of the map keys
\* otherwise (one enumeration per possible first element is kept; the
\* remaining elements follow in row-major order).
availableEnumerations(g, player, r) ==
    LET list == getAvailablePoints(g, player, r) IN
    IF r = ReversiRules /\ Len(getNonBlankPoints(g)) < 4
    THEN {list}
    ELSE {list} \cup {moveToFront(list, k) : k \in 1 .. Len(list)}

\* Variant of toggleCurrentPlayer that keeps the player.
toggleCurrentPlayerKeeps(p) == p

\* Variant of toggleCurrentPlayer that gives the turn to Dark.
toggleCurrentPlayerToDark(p) == DarkPlayer

toggleCurrentPlayer(p) == IF p = DarkPlayer THEN LightPlayer ELSE DarkPlayer

toggleRules(r) == IF r = ReversiRules THEN OthelloRules ELSE ReversiRules

togglePlayerMode(pm) == IF pm = OnePlayer THEN TwoPlayer ELSE OnePlayer

\* Variant of isComputerTurn without the test of the player.
isComputerTurnEitherPlayer(pm, player) == pm = OnePlayer

isComputerTurn(pm, player) == pm = OnePlayer /\ player = LightPlayer

\* Variant of the loop of computeBestPoint that also replaces the best point
\* on an equal count.
RECURSIVE bestPointFromLast(_, _, _, _, _, _)
bestPointFromLast(g, points, player, k, bestPoint, maxFlippedPointsCount) ==
    IF k > Len(points) THEN bestPoint
    ELSE LET flippedPointsCount == Len(getPointsToFlip(g, points[k], player)) IN
         IF flippedPointsCount >= maxFlippedPointsCount
         THEN bestPointFromLast(g, points, player, k + 1, points[k], flippedPointsCount)
         ELSE bestPointFromLast(g, points, player, k + 1, bestPoint, maxFlippedPointsCount)

\* The loop of computeBestPoint over points[k..], with the best so far.
RECURSIVE bestPointFrom(_, _, _, _, _, _)
bestPointFrom(g, points, player, k, bestPoint, maxFlippedPointsCount) ==
    IF k > Len(points) THEN bestPoint
    ELSE LET flippedPointsCount == Len(getPointsToFlip(g, points[k], player)) IN
         IF flippedPointsCount > maxFlippedPointsCount
         THEN bestPointFrom(g, points, player, k + 1, points[k], flippedPointsCount)
         ELSE bestPointFrom(g, points, player, k + 1, bestPoint, maxFlippedPointsCount)

computeBestPoint(g, points, player) ==
    bestPointFrom(g, points, player, 1, vector2d(0, 0), -1)

\* Variant of flipSelectedPoint that leaves the cell as it is.
flipSelectedPointSkipped(g, point, player) == g

flipSelectedPoint(g, point, player) == [g EXCEPT ![point.y][point.x] = player]

----------------------------------------------------------------------------
(* The model struct and its construction *)

createInitialModel(r, pm) ==
    [grid            |-> newGrid(r),
     selectedPoint   |-> vector2d(3, 3),
     view            |-> TitleView,
     currentPlayer   |-> DarkPlayer,
     disksFlipped    |-> <<>>,
     availablePoints |-> getAvailablePoints(newGrid(r), DarkPlayer, r),
     rules           |-> r,
     playerMode      |-> pm]

initialModel == createInitialModel(OthelloRules, OnePlayer)

\* Update returns the model m.
returnModel(m) ==
    /\ grid' = m.grid
    /\ selectedPoint' = m.selectedPoint
    /\ view' = m.view
    /\ currentPlayer' = m.currentPlayer
    /\ disksFlipped' = m.disksFlipped
    /\ availablePoints' = m.availablePoints
    /\ rules' = m.rules
    /\ playerMode' = m.playerMode

----------------------------------------------------------------------------
(* Bounds on the inputs: which placements the user makes *)

\* The first MaxFree placements of a session are made anywhere the program
\* accepts them.
MaxFree == 2

line(pairs) == [k \in 1 .. Len(pairs) |-> vector2d(pairs[k][1], pairs[k][2])]

\* Later placements of the user follow one of these games (the computer, when
\* it plays Light, is not bound by them).
Book ==
    { \* Othello: Light is wiped out by the 9th placement
      line(<< <<5,4>>, <<3,5>>, <<2,4>>, <<5,3>>, <<4,6>>, <<5,5>>, <<6,4>>,
              <<4,5>>, <<4,2>> >>),
      \* Othello: Dark has no move after the 8th placement
      line(<< <<3,2>>, <<2,2>>, <<1,2>>, <<1,1>>, <<5,4>>, <<0,2>>, <<0,0>>,
              <<2,0>> >>),
      \* Othello against the computer: no move for either player after the 10th
      line(<< <<4,5>>, <<5,3>>, <<4,2>>, <<3,5>>, <<2,3>>, <<1,3>>, <<5,4>>,
              <<5,5>>, <<3,2>>, <<3,1>> >>),
      \* Othello against the computer: Light has no move after the 13th
      line(<< <<3,2>>, <<2,4>>, <<1,5>>, <<3,1>>, <<5,4>>, <<0,6>>, <<2,2>>,
              <<6,4>>, <<2,1>>, <<1,0>>, <<2,0>>, <<1,1>>, <<0,0>> >>),
      \* Reversi: Light is wiped out by the 11th placement
      line(<< <<3,3>>, <<4,4>>, <<3,4>>, <<4,3>>, <<5,3>>, <<4,2>>, <<3,1>>,
              <<2,3>>, <<1,3>>, <<2,4>>, <<3,5>> >>),
      \* Reversi against the computer: only Light has no move after the 13th
      line(<< <<4,3>>, <<4,4>>, <<3,3>>, <<3,4>>, <<3,5>>, <<2,2>>, <<5,3>>,
              <<3,6>>, <<2,6>>, <<6,3>>, <<3,7>>, <<1,7>>, <<1,5>> >>),
      \* Reversi against the computer: no move for either player after the 14th
      line(<< <<3,3>>, <<4,4>>, <<4,3>>, <<3,4>>, <<3,5>>, <<4,2>>, <<5,2>>,
              <<2,4>>, <<2,3>>, <<2,2>>, <<4,5>>, <<4,6>>, <<3,2>>, <<6,2>> >>),
      \* Othello against the computer: only Dark has no move after the 14th
      line(<< <<3,2>>, <<4,2>>, <<5,3>>, <<2,2>>, <<3,1>>, <<4,1>>, <<5,1>>,
              <<4,0>>, <<3,5>>, <<3,6>>, <<2,1>>, <<6,2>>, <<1,3>>, <<1,1>> >>) }

\* The user presses Select on an accepted point only within the bounds above;
\* a Select the program rejects is always possible.
userMayPlace ==
    \/ Len(placed) < MaxFree
    \/ \E l \in Book : IsPrefix(Append(placed, selectedPoint), l)

----------------------------------------------------------------------------
(* Update: one action per view, for a key message msg *)

\* Variant of takeTurn that flips the captured disks without writing the disk
\* at the selected point.
takeTurnNoDisk ==
    IF Contains(availablePoints, selectedPoint)
    THEN LET pointsToFlip == getPointsToFlip(grid, selectedPoint, currentPlayer)
         IN  /\ grid' = flip(grid, pointsToFlip, currentPlayer)
             /\ disksFlipped' = pointsToFlip
             /\ view' = PointConfirmation
             /\ placed' = Append(placed, selectedPoint)
    ELSE UNCHANGED <<grid, disksFlipped, view, placed>>

\* Variant of takeTurn that records the flips without applying them.
takeTurnNoFlip ==
    IF Contains(availablePoints, selectedPoint)
    THEN LET g1 == flipSelectedPoint(grid, selectedPoint, currentPlayer)
             pointsToFlip == getPointsToFlip(g1, selectedPoint, currentPlayer)
         IN  /\ grid' = g1
             /\ disksFlipped' = pointsToFlip
             /\ view' = PointConfirmation
             /\ placed' = Append(placed, selectedPoint)
    ELSE UNCHANGED <<grid, disksFlipped, view, placed>>

\* Variant of takeTurn without the test that the point is available.
takeTurnUnchecked ==
    LET g1 == flipSelectedPoint(grid, selectedPoint, currentPlayer)
        pointsToFlip == getPointsToFlip(g1, selectedPoint, currentPlayer)
    IN  /\ grid' = flip(g1, pointsToFlip, currentPlayer)
        /\ disksFlipped' = pointsToFlip
        /\ view' = PointConfirmation
        /\ placed' = Append(placed, selectedPoint)

takeTurn ==
    IF Contains(availablePoints, selectedPoint)
    THEN LET g1 == flipSelectedPoint(grid, selectedPoint, currentPlayer)
             pointsToFlip == getPointsToFlip(g1, selectedPoint, currentPlayer)
         IN  /\ grid' = flip(g1, pointsToFlip, currentPlayer)
             /\ disksFlipped' = pointsToFlip
             /\ view' = PointConfirmation
             /\ placed' = Append(placed, selectedPoint)
    ELSE UNCHANGED <<grid, disksFlipped, view, placed>>

\* Variant of moveSelectedPoint without the wraparound.
moveSelectedPointNoWrap(msg) ==
    IF msg \in {"up", "w"}
        THEN [selectedPoint EXCEPT !.y = selectedPoint.y - 1]
    ELSE IF msg \in {"down", "s"}
        THEN [selectedPoint EXCEPT !.y = selectedPoint.y + 1]
    ELSE IF msg \in {"left", "a"}
        THEN [selectedPoint EXCEPT !.x = selectedPoint.x - 1]
    ELSE [selectedPoint EXCEPT !.x = selectedPoint.x + 1]

moveSelectedPoint(msg) ==
    IF msg \in {"up", "w"}
        THEN [selectedPoint EXCEPT !.y = ((selectedPoint.y - 1) + gridHeight) % gridHeight]
    ELSE IF msg \in {"down", "s"}
        THEN [selectedPoint EXCEPT !.y = ((selectedPoint.y + 1) + gridHeight) % gridHeight]
    ELSE IF msg \in {"left", "a"}
        THEN [selectedPoint EXCEPT !.x = ((selectedPoint.x - 1) + gridWidth) % gridWidth]
    ELSE [selectedPoint EXCEPT !.x = ((selectedPoint.x + 1) + gridWidth) % gridWidth]

\* Variant of the PointSelection case whose quit keys end the program without
\* asking.
UpdatePointSelectionQuits(msg) ==
    /\ view = PointSelection
    /\ ~quit
    /\ IF msg \in {"ctrl+c", "q"}
       THEN /\ quit' = TRUE
            /\ UNCHANGED <<grid, selectedPoint, view, disksFlipped, placed>>
       ELSE IF msg \in {"up", "w", "down", "s", "left", "a", "right", "d"}
       THEN /\ selectedPoint' = moveSelectedPoint(msg)
            /\ UNCHANGED <<grid, view, disksFlipped, placed, quit>>
       ELSE IF msg \in {"enter", " "}
       THEN /\ Contains(availablePoints, selectedPoint) => userMayPlace
            /\ takeTurn
            /\ UNCHANGED <<selectedPoint, quit>>
       ELSE UNCHANGED <<grid, selectedPoint, view, disksFlipped, placed, quit>>
    /\ UNCHANGED <<currentPlayer, availablePoints, rules, playerMode, call>>

UpdatePointSelection(msg) ==
    /\ view = PointSelection
    /\ ~quit
    /\ IF msg \in {"ctrl+c", "q"}
       THEN /\ view' = QuitConfirmation
            /\ UNCHANGED <<grid, selectedPoint, disksFlipped, placed>>
       ELSE IF msg \in {"up", "w", "down", "s", "left", "a", "right", "d"}
       THEN /\ selectedPoint' = moveSelectedPoint(msg)
            /\ UNCHANGED <<grid, view, disksFlipped, placed>>
       ELSE IF msg \in {"enter", " "}
       THEN /\ Contains(availablePoints, selectedPoint) => userMayPlace
            /\ takeTurn
            /\ UNCHANGED selectedPoint
       ELSE UNCHANGED <<grid, selectedPoint, view, disksFlipped, placed>>
    /\ UNCHANGED <<currentPlayer, availablePoints, rules, playerMode, quit, call>>

\* Variant of the PointSelectionComputer case that lets the movement keys
\* move the selected point, as the PointSelection case does.
UpdatePointSelectionComputerMoves(msg) ==
    /\ view = PointSelectionComputer
    /\ ~quit
    /\ IF msg \in {"up", "w", "down", "s", "left", "a", "right", "d"}
       THEN /\ selectedPoint' = moveSelectedPoint(msg)
            /\ UNCHANGED <<grid, view, disksFlipped, placed>>
       ELSE /\ takeTurn
            /\ UNCHANGED selectedPoint
    /\ UNCHANGED <<currentPlayer, availablePoints, rules, playerMode, quit, call>>

UpdatePointSelectionComputer(msg) ==
    /\ view = PointSelectionComputer
    /\ ~quit
    /\ takeTurn
    /\ UNCHANGED <<selectedPoint, currentPlayer, availablePoints, rules, playerMode,
                   quit, call>>

\* Variant of viewAfterConfirmation that tests the next player's moves before
\* testing whether both players are without moves.
viewAfterConfirmationPassFirst(playersCanMove, player, r, pm) ==
    IF ~playersCanMove[player]
    THEN (IF r = ReversiRules THEN GameOverView ELSE PassView)
    ELSE IF ~playersCanMove[DarkPlayer] /\ ~playersCanMove[LightPlayer]
    THEN GameOverView
    ELSE IF isComputerTurn(pm, player) THEN PointSelectionComputer
    ELSE PointSelection

\* Variant of viewAfterConfirmation that ends the game under either rules
\* when the next player cannot move.
viewAfterConfirmationNeverPass(playersCanMove, player, r, pm) ==
    IF ~playersCanMove[DarkPlayer] /\ ~playersCanMove[LightPlayer]
    THEN GameOverView
    ELSE IF ~playersCanMove[player]
    THEN GameOverView
    ELSE IF isComputerTurn(pm, player) THEN PointSelectionComputer
    ELSE PointSelection

\* Variant of viewAfterConfirmation that tests whose turn it is before
\* testing whether the next player can move.
viewAfterConfirmationComputerFirst(playersCanMove, player, r, pm) ==
    IF ~playersCanMove[DarkPlayer] /\ ~playersCanMove[LightPlayer]
    THEN GameOverView
    ELSE IF isComputerTurn(pm, player) THEN PointSelectionComputer
    ELSE IF ~playersCanMove[player]
    THEN (IF r = ReversiRules THEN GameOverView ELSE PassView)
    ELSE PointSelection

\* Variant of viewAfterConfirmation without the tests of the players' moves.
viewAfterConfirmationNoTests(playersCanMove, player, r, pm) ==
    IF isComputerTurn(pm, player) THEN PointSelectionComputer
    ELSE PointSelection

\* Variant of viewAfterConfirmation that passes the turn under either rules.
viewAfterConfirmationAlwaysPass(playersCanMove, player, r, pm) ==
    IF ~playersCanMove[DarkPlayer] /\ ~playersCanMove[LightPlayer]
    THEN GameOverView
    ELSE IF ~playersCanMove[player]
    THEN PassView
    ELSE IF isComputerTurn(pm, player) THEN PointSelectionComputer
    ELSE PointSelection

\* The view chosen by the if-chain that ends the PointConfirmation case.
viewAfterConfirmation(playersCanMove, player, r, pm) ==
    IF ~playersCanMove[DarkPlayer] /\ ~playersCanMove[LightPlayer]
    THEN GameOverView
    ELSE IF ~playersCanMove[player]
    THEN (IF r = ReversiRules THEN GameOverView ELSE PassView)
    ELSE IF isComputerTurn(pm, player) THEN PointSelectionComputer
    ELSE PointSelection

\* Variant of the PointConfirmation case that keeps the stored available
\* points instead of storing those of the next player.
UpdatePointConfirmationStale(msg) ==
    /\ view = PointConfirmation
    /\ ~quit
    /\ LET player == toggleCurrentPlayer(currentPlayer)
           availablePointsByPlayer ==
               [p \in Players |-> getAvailablePoints(grid, p, rules)]
           playersCanMove ==
               [p \in Players |-> Len(availablePointsByPlayer[p]) > 0]
       IN  /\ currentPlayer' = player
           /\ view' = viewAfterConfirmation(playersCanMove, player, rules, playerMode)
           /\ IF view' = PointSelectionComputer
              THEN \E order \in availableEnumerations(grid, player, rules) :
                      LET bestPoint == computeBestPoint(grid, order, player) IN
                      /\ selectedPoint' = bestPoint
                      /\ grid' = flipSelectedPoint(grid, bestPoint, player)
              ELSE UNCHANGED <<grid, selectedPoint>>
    /\ UNCHANGED <<disksFlipped, availablePoints, rules, playerMode, quit, placed, call>>

UpdatePointConfirmation(msg) ==
    /\ view = PointConfirmation
    /\ ~quit
    /\ LET player == toggleCurrentPlayer(currentPlayer)
           availablePointsByPlayer ==
               [p \in Players |-> getAvailablePoints(grid, p, rules)]
           playersCanMove ==
               [p \in Players |-> Len(availablePointsByPlayer[p]) > 0]
       IN  /\ currentPlayer' = player
           /\ availablePoints' = availablePointsByPlayer[player]
           /\ view' = viewAfterConfirmation(playersCanMove, player, rules, playerMode)
           /\ IF view' = PointSelectionComputer
              THEN \E order \in availableEnumerations(grid, player, rules) :
                      LET bestPoint == computeBestPoint(grid, order, player) IN
                      /\ selectedPoint' = bestPoint
                      /\ grid' = flipSelectedPoint(grid, bestPoint, player)
              ELSE UNCHANGED <<grid, selectedPoint>>
    /\ UNCHANGED <<disksFlipped, rules, playerMode, quit, placed, call>>

\* Variant of the TitleView case whose "r" toggles the rules without building
\* a new model.
UpdateTitleViewKeepsBoard(msg) ==
    /\ view = TitleView
    /\ ~quit
    /\ IF msg = "r"
       THEN /\ rules' = toggleRules(rules)
            /\ UNCHANGED <<grid, selectedPoint, view, currentPlayer, disksFlipped,
                           availablePoints, playerMode>>
       ELSE IF msg = "p"
       THEN /\ playerMode' = togglePlayerMode(playerMode)
            /\ UNCHANGED <<grid, selectedPoint, view, currentPlayer, disksFlipped,
                           availablePoints, rules>>
       ELSE /\ view' = PointSelection
            /\ UNCHANGED <<grid, selectedPoint, currentPlayer, disksFlipped,
                           availablePoints, rules, playerMode>>
    /\ UNCHANGED <<quit, placed, call>>

UpdateTitleView(msg) ==
    /\ view = TitleView
    /\ ~quit
    /\ IF msg = "r"
       THEN returnModel(createInitialModel(toggleRules(rules), playerMode))
       ELSE IF msg = "p"
       THEN /\ playerMode' = togglePlayerMode(playerMode)
            /\ UNCHANGED <<grid, selectedPoint, view, currentPlayer, disksFlipped,
                           availablePoints, rules>>
       ELSE /\ view' = PointSelection
            /\ UNCHANGED <<grid, selectedPoint, currentPlayer, disksFlipped,
                           availablePoints, rules, playerMode>>
    /\ UNCHANGED <<quit, placed, call>>

\* Variant of the QuitConfirmation case whose cancel puts the selected point
\* back where a game starts.
UpdateQuitConfirmationCursor(msg) ==
    /\ view = QuitConfirmation
    /\ ~quit
    /\ IF msg = "enter"
       THEN /\ quit' = TRUE
            /\ UNCHANGED <<view, selectedPoint>>
       ELSE /\ view' = PointSelection
            /\ selectedPoint' = vector2d(3, 3)
            /\ UNCHANGED quit
    /\ UNCHANGED <<grid, currentPlayer, disksFlipped, availablePoints,
                   rules, playerMode, placed, call>>

\* Variant of the QuitConfirmation case whose cancel restores the initial
\* board.
UpdateQuitConfirmationReset(msg) ==
    /\ view = QuitConfirmation
    /\ ~quit
    /\ IF msg = "enter"
       THEN /\ quit' = TRUE
            /\ UNCHANGED <<view, grid>>
       ELSE /\ view' = PointSelection
            /\ grid' = newGrid(rules)
            /\ UNCHANGED quit
    /\ UNCHANGED <<selectedPoint, currentPlayer, disksFlipped, availablePoints,
                   rules, playerMode, placed, call>>

UpdateQuitConfirmation(msg) ==
    /\ view = QuitConfirmation
    /\ ~quit
    /\ IF msg = "enter"
       THEN /\ quit' = TRUE
            /\ UNCHANGED view
       ELSE /\ view' = PointSelection
            /\ UNCHANGED quit
    /\ UNCHANGED <<grid, selectedPoint, currentPlayer, disksFlipped, availablePoints,
                   rules, playerMode, placed, call>>

\* Variant of the GameOverView case whose "enter" returns the model the
\* program starts with.
UpdateGameOverViewDefault(msg) ==
    /\ view = GameOverView
    /\ ~quit
    /\ IF msg = "enter"
       THEN /\ returnModel(initialModel)
            /\ placed' = <<>>
            /\ UNCHANGED quit
       ELSE /\ quit' = TRUE
            /\ UNCHANGED <<modelVars, placed>>
    /\ UNCHANGED call

UpdateGameOverView(msg) ==
    /\ view = GameOverView
    /\ ~quit
    /\ IF msg = "enter"
       THEN /\ returnModel(createInitialModel(rules, playerMode))
            /\ placed' = <<>>
            /\ UNCHANGED quit
       ELSE /\ quit' = TRUE
            /\ UNCHANGED <<modelVars, placed>>
    /\ UNCHANGED call

\* Variant of the PassView case that empties the record of flipped disks.
UpdatePassViewClears(msg) ==
    /\ view = PassView
    /\ ~quit
    /\ currentPlayer' = toggleCurrentPlayer(currentPlayer)
    /\ view' = PointSelection
    /\ availablePoints' =
           getAvailablePoints(grid, toggleCurrentPlayer(currentPlayer), rules)
    /\ disksFlipped' = <<>>
    /\ UNCHANGED <<grid, selectedPoint, rules, playerMode, quit, placed, call>>

\* Variant of the PassView case that keeps the stored available points.
UpdatePassViewStale(msg) ==
    /\ view = PassView
    /\ ~quit
    /\ currentPlayer' = toggleCurrentPlayer(currentPlayer)
    /\ view' = PointSelection
    /\ UNCHANGED <<grid, selectedPoint, disksFlipped, availablePoints, rules,
                   playerMode, quit, placed, call>>

UpdatePassView(msg) ==
    /\ view = PassView
    /\ ~quit
    /\ currentPlayer' = toggleCurrentPlayer(currentPlayer)
    /\ view' = PointSelection
    /\ availablePoints' =
           getAvailablePoints(grid, toggleCurrentPlayer(currentPlayer), rules)
    /\ UNCHANGED <<grid, selectedPoint, disksFlipped, rules, playerMode, quit,
                   placed, call>>

Init ==
    /\ grid = initialModel.grid
    /\ selectedPoint = initialModel.selectedPoint
    /\ view = initialModel.view
    /\ currentPlayer = initialModel.currentPlayer
    /\ disksFlipped = initialModel.disksFlipped
    /\ availablePoints = initialModel.availablePoints
    /\ rules = initialModel.rules
    /\ playerMode = initialModel.playerMode
    /\ quit = FALSE
    /\ placed = <<>>
    /\ call = ""

Next ==
    \E msg \in Keys :
        \/ UpdatePointSelection(msg)
        \/ UpdatePointSelectionComputer(msg)
        \/ UpdatePointConfirmation(msg)
        \/ UpdateTitleView(msg)
        \/ UpdateQuitConfirmation(msg)
        \/ UpdateGameOverView(msg)
        \/ UpdatePassView(msg)

Spec == Init /\ [][Next]_vars

----------------------------------------------------------------------------
(* The pure functions applied to arbitrary boards *)

\* The cells that may hold a disk on the boards the functions are applied to:
\* the centre square, its upper row out to the right edge, and two cells that
\* complete a vertical and both diagonal lines of three.
FnRegion ==
    {vector2d(x, 3) : x \in 3 .. 7}
        \cup {vector2d(3, 4), vector2d(4, 4)}
        \cup {vector2d(3, 5), vector2d(5, 5)}

\* The number of disks on those boards.
FnMaxDisks == 4

\* The points the functions are applied at.
FnPoints == FnRegion \cup {vector2d(2, 3), vector2d(0, 0)}

boardOf(colour) ==
    [i \in Rows |-> [j \in Cols |->
        IF vector2d(j, i) \in DOMAIN colour THEN colour[vector2d(j, i)] ELSE Blank]]

InitFn ==
    /\ \E S \in {T \in SUBSET FnRegion : Cardinality(T) <= FnMaxDisks} :
          \E colour \in [S -> Players] : grid = boardOf(colour)
    /\ selectedPoint = vector2d(3, 3)
    /\ view = TitleView
    /\ currentPlayer = DarkPlayer
    /\ disksFlipped = <<>>
    /\ availablePoints = <<>>
    /\ rules = OthelloRules
    /\ playerMode = OnePlayer
    /\ quit = FALSE
    /\ placed = <<>>
    /\ call = ""

CallGetPointsToFlip ==
    /\ call = ""
    /\ \E p \in FnPoints, player \in Players :
          /\ selectedPoint' = p
          /\ currentPlayer' = player
          /\ disksFlipped' = getPointsToFlip(grid, p, player)
    /\ call' = "getPointsToFlip"
    /\ UNCHANGED <<grid, view, availablePoints, rules, playerMode, quit, placed>>

CallGetAvailablePoints ==
    /\ call = ""
    /\ \E player \in Players, r \in {ReversiRules, OthelloRules} :
          /\ currentPlayer' = player
          /\ rules' = r
          /\ availablePoints' = getAvailablePoints(grid, player, r)
    /\ call' = "getAvailablePoints"
    /\ UNCHANGED <<grid, selectedPoint, view, disksFlipped, playerMode, quit, placed>>

NextFn ==
    \/ CallGetPointsToFlip
    \/ CallGetAvailablePoints

SpecFn == InitFn /\ [][NextFn]_vars

\* The cells that may hold a disk on the boards computeBestPoint is applied
\* to: a row of four, a column of three and the diagonal neighbour of their
\* common end.
BestRegion ==
    {vector2d(x, 3) : x \in 3 .. 6}
        \cup {vector2d(3, 4), vector2d(3, 5), vector2d(4, 4)}

\* The number of disks on those boards.
BestMaxDisks == 5

InitBest ==
    /\ \E S \in {T \in SUBSET BestRegion : Cardinality(T) <= BestMaxDisks} :
          \E colour \in [S -> Players] : grid = boardOf(colour)
    /\ selectedPoint = vector2d(3, 3)
    /\ view = TitleView
    /\ currentPlayer = DarkPlayer
    /\ disksFlipped = <<>>
    /\ availablePoints = <<>>
    /\ rules = OthelloRules
    /\ playerMode = OnePlayer
    /\ quit = FALSE
    /\ placed = <<>>
    /\ call = ""

\* computeBestPoint on a model whose availablePoints is one of the lists
\* getAvailablePoints may return for the board, when that list is not empty.
CallComputeBestPoint ==
    /\ call = ""
    /\ \E player \in Players, r \in {ReversiRules, OthelloRules} :
          \E order \in availableEnumerations(grid, player, r) :
             /\ order # <<>>
             /\ currentPlayer' = player
             /\ rules' = r
             /\ availablePoints' = order
             /\ selectedPoint' = computeBestPoint(grid, order, player)
    /\ call' = "computeBestPoint"
    /\ UNCHANGED <<grid, view, disksFlipped, playerMode, quit, placed>>

SpecBest == InitBest /\ [][CallComputeBestPoint]_vars

----------------------------------------------------------------------------
(* Vocabulary of the properties *)

cell(g, p) == g[p.y][p.x]

opponentOf(P) == CHOOSE Q \in Players : Q # P

DiskCount(g) == Cardinality({p \in Points : cell(g, p) # Blank})

CentreCells == {vector2d(3, 3), vector2d(4, 4), vector2d(3, 4), vector2d(4, 3)}

\* The point n steps from p in the direction (dx, dy).
stepFrom(p, dx, dy, n) == vector2d(p.x + n * dx, p.y + n * dy)

\* The sandwich rule, stated on its own: the cells of every straight run of
\* opposing disks that starts next to p and is closed, t steps from p, by a
\* disk of P inside the board.
Captured(g, p, P) ==
    UNION { {stepFrom(p, c[1], c[2], n) : n \in 1 .. (c[3] - 1)} :
            c \in {e \in (-1 .. 1) \X (-1 .. 1) \X (2 .. 7) :
                     /\ e[1] # 0 \/ e[2] # 0
                     /\ isPointInsideGrid(stepFrom(p, e[1], e[2], e[3]))
                     /\ cell(g, stepFrom(p, e[1], e[2], e[3])) = P
                     /\ \A m \in 1 .. (e[3] - 1) :
                           cell(g, stepFrom(p, e[1], e[2], m)) = opponentOf(P)} }

\* The set of legal points of player P, as getAvailablePoints lists it.
LegalPoints(g, P, r) == Range(getAvailablePoints(g, P, r))

\* A step of Update that handles Select in the PointSelection view.
SelectStep == \E msg \in {"enter", " "} : UpdatePointSelection(msg)

\* The board the Othello rules start from, as the rules describe it.
ModernStart ==
    [i \in Rows |-> [j \in Cols |->
        IF vector2d(j, i) \in {vector2d(3, 3), vector2d(4, 4)} THEN LightPlayer
        ELSE IF vector2d(j, i) \in {vector2d(3, 4), vector2d(4, 3)} THEN DarkPlayer
        ELSE Blank]]

----------------------------------------------------------------------------
(* Properties *)

\* C1: every cell of the board holds Blank, Dark or Light, and in every step
\* that does not end on the title screen (a restart) a cell that holds a disk
\* still holds a disk afterwards.
C1_OccupancyIsKept ==
    /\ [](\A p \in Points : cell(grid, p) \in {Blank, DarkPlayer, LightPlayer})
    /\ [][view' # TitleView =>
            \A p \in Points : cell(grid, p) # Blank => cell(grid', p) # Blank]_vars

C1_Witness ==
    /\ view = PointConfirmation
    /\ Len(placed) >= 3
    /\ Len(disksFlipped) >= 2
    /\ \A k \in 1 .. Len(placed) : cell(grid, placed[k]) # Blank

\* C2: a Select on a legal point p by player P writes P at p and at every
\* point of the flip set of p on the board before, changes no other cell,
\* records exactly that flip set, shows PointConfirmation and keeps P as the
\* current player.
C2_AcceptedSelect ==
    [][(SelectStep /\ Contains(availablePoints, selectedPoint)) =>
        LET p == selectedPoint
            P == currentPlayer
            F == Range(getPointsToFlip(grid, p, P))
        IN  /\ cell(grid', p) = P
            /\ \A q \in Points :
                  /\ q \in F => cell(grid', q) = P
                  /\ q \notin F \cup {p} => cell(grid', q) = cell(grid, q)
            /\ Range(disksFlipped') = F
            /\ NoDuplicates(disksFlipped')
            /\ view' = PointConfirmation
            /\ currentPlayer' = P
            /\ selectedPoint' = p]_vars

C2_Witness ==
    /\ view = PointConfirmation
    /\ currentPlayer = DarkPlayer
    /\ cell(grid, selectedPoint) = DarkPlayer
    /\ Len(disksFlipped) >= 2
    /\ \A k \in 1 .. Len(disksFlipped) : cell(grid, disksFlipped[k]) = DarkPlayer

\* C3: a Select on a point that is not in the legal-point set changes nothing
\* of the model.
C3_RejectedSelect ==
    [][(SelectStep /\ ~Contains(availablePoints, selectedPoint)) =>
        UNCHANGED modelVars]_vars

\* A centre-square phase of Reversi with the cursor on a blank cell outside
\* the centre square: Select is rejected there and the state stays as it is.
C3_Witness ==
    /\ view = PointSelection
    /\ rules = ReversiRules
    /\ Len(placed) = 2
    /\ DiskCount(grid) = 2
    /\ cell(grid, selectedPoint) = Blank
    /\ selectedPoint \notin CentreCells
    /\ ~Contains(availablePoints, selectedPoint)

\* C4: getPointsToFlip returns exactly the cells captured under the sandwich
\* rule, each once.
C4_FlipsAreTheSandwiched ==
    call = "getPointsToFlip" =>
        /\ Range(disksFlipped) = Captured(grid, selectedPoint, currentPlayer)
        /\ NoDuplicates(disksFlipped)

C4_Witness ==
    /\ call = "getPointsToFlip"
    /\ Len(disksFlipped) >= 3

\* C5: outside the centre-square phase getAvailablePoints lists exactly the
\* blank cells whose flip set is not empty, each once.
C5_LegalIsBlankWithFlips ==
    (call = "getAvailablePoints" /\ ~(rules = ReversiRules /\ DiskCount(grid) < 4)) =>
        /\ Range(availablePoints) =
              {q \in Points : /\ cell(grid, q) = Blank
                              /\ getPointsToFlip(grid, q, currentPlayer) # <<>>}
        /\ NoDuplicates(availablePoints)

C5_Witness ==
    /\ call = "getAvailablePoints"
    /\ rules = ReversiRules
    /\ DiskCount(grid) >= 4
    /\ Len(availablePoints) >= 2

\* C6: under the Reversi rules with fewer than 4 disks on the board,
\* getAvailablePoints lists exactly the blank cells of the centre square.
C6_CentreSquarePhase ==
    (call = "getAvailablePoints" /\ rules = ReversiRules /\ DiskCount(grid) < 4) =>
        /\ Range(availablePoints) = {c \in CentreCells : cell(grid, c) = Blank}
        /\ NoDuplicates(availablePoints)

\* Three disks, a blank centre cell where the player would capture, and a blank
\* cell outside the centre where the player would capture too.
C6_Witness ==
    /\ call = "getAvailablePoints"
    /\ rules = ReversiRules
    /\ DiskCount(grid) = 3
    /\ \E c \in CentreCells :
          cell(grid, c) = Blank /\ Captured(grid, c, currentPlayer) # {}
    /\ \E q \in Points \ CentreCells :
          cell(grid, q) = Blank /\ Captured(grid, q, currentPlayer) # {}

\* C7: an Othello game starts on the starting board with Dark to move and the
\* legal points (2,3), (3,2), (4,5), (5,4).
C7_OpeningMoves ==
    (rules = OthelloRules /\ placed = <<>> /\ view \in {TitleView, PointSelection}) =>
        /\ grid = ModernStart
        /\ currentPlayer = DarkPlayer
        /\ Range(availablePoints) =
              {vector2d(2, 3), vector2d(3, 2), vector2d(4, 5), vector2d(5, 4)}
        /\ Len(availablePoints) = 4

C7_Witness ==
    /\ rules = OthelloRules
    /\ view = PointSelection
    /\ placed = <<>>
    /\ grid = ModernStart

\* C8: placing Dark at (2,3) on the Othello starting board flips exactly (3,3)
\* and leaves the scores Dark 4, Light 1.
C8_FirstPlacement ==
    (rules = OthelloRules /\ view = PointConfirmation /\ placed = <<vector2d(2, 3)>>) =>
        /\ currentPlayer = DarkPlayer
        /\ disksFlipped = <<vector2d(3, 3)>>
        /\ computeScores(grid)[DarkPlayer] = 4
        /\ computeScores(grid)[LightPlayer] = 1

C8_Witness ==
    /\ rules = OthelloRules
    /\ view = PointConfirmation
    /\ placed = <<vector2d(2, 3)>>

\* C9: acknowledging PointConfirmation on a board where neither player has a
\* legal point leads to GameOverView.
C9_NoMovesIsGameOver ==
    [][(/\ view = PointConfirmation
        /\ ~quit
        /\ LegalPoints(grid, DarkPlayer, rules) = {}
        /\ LegalPoints(grid, LightPlayer, rules) = {}) =>
       view' = GameOverView]_vars

C9_Witness ==
    /\ view = GameOverView
    /\ rules = OthelloRules
    /\ playerMode = OnePlayer
    /\ DiskCount(grid) < gridWidth * gridHeight
    /\ LegalPoints(grid, DarkPlayer, rules) = {}
    /\ LegalPoints(grid, LightPlayer, rules) = {}

\* C10: under the Othello rules, acknowledging PointConfirmation when only the
\* player who would move next has no legal point leads to PassView, and the
\* next key leaves the board as it is, gives the turn back to the other player
\* and stores that player's legal points on that board.
C10_ForcedPass ==
    [][/\ (/\ view = PointConfirmation
           /\ ~quit
           /\ rules = OthelloRules
           /\ LegalPoints(grid, opponentOf(currentPlayer), rules) = {}
           /\ LegalPoints(grid, currentPlayer, rules) # {}) =>
          (/\ view' = PassView
           /\ currentPlayer' = opponentOf(currentPlayer)
           /\ grid' = grid)
       /\ (view = PassView /\ ~quit) =>
          (/\ grid' = grid
           /\ currentPlayer' = opponentOf(currentPlayer)
           /\ Range(availablePoints') = LegalPoints(grid, currentPlayer', OthelloRules)
           /\ NoDuplicates(availablePoints')
           /\ availablePoints' # <<>>
           /\ rules' = OthelloRules)]_vars

\* The player who got the turn back after the opponent's pass.
C10_Witness ==
    /\ view = PointSelection
    /\ rules = OthelloRules
    /\ placed # <<>>
    /\ cell(grid, placed[Len(placed)]) = currentPlayer
    /\ LegalPoints(grid, opponentOf(currentPlayer), rules) = {}
    /\ Range(availablePoints) = LegalPoints(grid, currentPlayer, rules)
    /\ availablePoints # <<>>

\* A step of Update that acknowledges the PointConfirmation view.
AcknowledgeStep == \E msg \in Keys : UpdatePointConfirmation(msg)

\* C11: under the Reversi rules the PassView is never shown, and acknowledging
\* PointConfirmation when the player who would move next has no legal point
\* leads to GameOverView, whether or not the other player has a legal point.
C11_HistoricalNeverPasses ==
    /\ [](rules = ReversiRules => view # PassView)
    /\ [][(/\ AcknowledgeStep
           /\ rules = ReversiRules
           /\ LegalPoints(grid, opponentOf(currentPlayer), rules) = {}) =>
          (/\ view' = GameOverView
           /\ currentPlayer' = opponentOf(currentPlayer)
           /\ rules' = ReversiRules)]_vars

\* The game is over although the player who moved last could move again.
C11_Witness ==
    /\ view = GameOverView
    /\ rules = ReversiRules
    /\ placed # <<>>
    /\ LegalPoints(grid, currentPlayer, rules) = {}
    /\ LegalPoints(grid, opponentOf(currentPlayer), rules) # {}

\* C12: in 1-player mode the PointSelection view, which takes the user's
\* movement and Select keys, is never shown while the current player is the
\* one the computer plays.
C12_ComputerNeverInHumanSelection ==
    ~(view = PointSelection /\ isComputerTurn(playerMode, currentPlayer))

\* The number of disks a placement of P at p captures on g.
FlipCount(g, p, P) == Cardinality(Captured(g, p, P))

\* The position of p in the list s that contains it.
IndexOf(s, p) == CHOOSE k \in 1 .. Len(s) : s[k] = p

\* C13: on a non-empty list of legal points computeBestPoint returns a point
\* of the list that captures at least as many disks as every point of the
\* list, and strictly more than every point listed before it.
C13_BestPointIsFirstMaximum ==
    call = "computeBestPoint" =>
        /\ Range(availablePoints) = LegalPoints(grid, currentPlayer, rules)
        /\ Contains(availablePoints, selectedPoint)
        /\ \A k \in 1 .. Len(availablePoints) :
              /\ FlipCount(grid, availablePoints[k], currentPlayer)
                    <= FlipCount(grid, selectedPoint, currentPlayer)
              /\ k < IndexOf(availablePoints, selectedPoint) =>
                    FlipCount(grid, availablePoints[k], currentPlayer)
                      < FlipCount(grid, selectedPoint, currentPlayer)

\* The list holds a point that captures one disk and then a point that
\* captures three, and the second is returned.
C13_Witness ==
    /\ call = "computeBestPoint"
    /\ Len(availablePoints) = 2
    /\ FlipCount(grid, availablePoints[1], currentPlayer) = 1
    /\ FlipCount(grid, availablePoints[2], currentPlayer) = 3
    /\ selectedPoint = availablePoints[2]

\* The points computeBestPoint may return for player P on board g, over the
\* orders in which getAvailablePoints may list the legal points.
ComputerChoices(g, P, r) ==
    {computeBestPoint(g, order, P) : order \in availableEnumerations(g, P, r)}

\* C14: whenever an acknowledged PointConfirmation hands the turn to the
\* computer, the board, the player and the rules leave one point only for the
\* computer to choose.
C14_ComputerMoveIsAFunction ==
    (/\ view = PointConfirmation
     /\ isComputerTurn(playerMode, opponentOf(currentPlayer))
     /\ LegalPoints(grid, opponentOf(currentPlayer), rules) # {}) =>
        Cardinality(ComputerChoices(grid, opponentOf(currentPlayer), rules)) = 1

\* The board g with the cell at p emptied.
Emptied(g, p) == [g EXCEPT ![p.y][p.x] = Blank]

\* C15 as claimed: in the PointSelection and PointSelectionComputer views the
\* stored available points are the legal points of the current player on the
\* board of that state.
C15_StoredPointsAreCurrent ==
    view \in {PointSelection, PointSelectionComputer} =>
        Range(availablePoints) = LegalPoints(grid, currentPlayer, rules)

\* C15, amended: in the PointSelection view the stored available points are
\* the legal points of the current player on the board of that state; in the
\* PointSelectionComputer view the board already holds the computer's disk at
\* the selected point, and the stored available points, which include that
\* point, are the legal points on the board without that disk.
C15_StoredPointsBeforeComputerDisk ==
    /\ view = PointSelection =>
          /\ Range(availablePoints) = LegalPoints(grid, currentPlayer, rules)
          /\ NoDuplicates(availablePoints)
    /\ view = PointSelectionComputer =>
          /\ cell(grid, selectedPoint) = currentPlayer
          /\ Contains(availablePoints, selectedPoint)
          /\ NoDuplicates(availablePoints)
          /\ Range(availablePoints) =
                LegalPoints(Emptied(grid, selectedPoint), currentPlayer, rules)

\* The computer's disk is on the board and its point is still stored as
\* available.
C15_Witness ==
    /\ view = PointSelectionComputer
    /\ Len(placed) >= 3
    /\ Contains(availablePoints, selectedPoint)
    /\ selectedPoint \notin LegalPoints(grid, currentPlayer, rules)
    /\ Len(availablePoints) >= 2

\* A step that builds a new model: a restart after the game is over, or a
\* change of rules on the title screen.
NewModelStep ==
    /\ view' = TitleView
    /\ view = GameOverView \/ rules' # rules

\* A step from PointSelection or PointSelectionComputer to PointConfirmation.
PlacementStep ==
    /\ view \in {PointSelection, PointSelectionComputer}
    /\ view' = PointConfirmation

\* The board g after player P has a disk at p and at every disk p captures.
AfterPlacement(g, p, P) ==
    [i \in Rows |-> [j \in Cols |->
        IF vector2d(j, i) = p \/ vector2d(j, i) \in Captured(g, p, P)
        THEN P ELSE g[i][j]]]

\* C16 as claimed: within a session the board changes only in a step from
\* PointSelection or PointSelectionComputer to PointConfirmation, which
\* leaves the disk and all its flips on the board.
C16_BoardChangesOnlyInPlacement ==
    [][(grid' # grid /\ ~NewModelStep) =>
          /\ PlacementStep
          /\ grid' = AfterPlacement(grid, selectedPoint, currentPlayer)]_vars

\* C16, amended: within a session a step from PointSelection or
\* PointSelectionComputer to PointConfirmation leaves the disk and all its
\* flips on the board; the acknowledgement of PointConfirmation that hands
\* the turn to the computer writes the computer's disk, and nothing else, at
\* the point it selects; every other step leaves the board unchanged.
C16_BoardChangesWithComputerDisk ==
    [][~NewModelStep =>
          IF PlacementStep
          THEN grid' = AfterPlacement(grid, selectedPoint, currentPlayer)
          ELSE IF view = PointConfirmation /\ view' = PointSelectionComputer
          THEN /\ cell(grid, selectedPoint') = Blank
               /\ grid' = flipSelectedPoint(grid, selectedPoint', currentPlayer')
          ELSE grid' = grid]_vars

\* The computer's disk is on the board before the disks it captures are
\* flipped.
C16_Witness ==
    /\ view = PointSelectionComputer
    /\ cell(grid, selectedPoint) = LightPlayer
    /\ Captured(grid, selectedPoint, LightPlayer) # {}
    /\ DiskCount(grid) >= 8

\* The sum of the two players' scores on board g.
ScoreSum(g) == computeScores(g)[DarkPlayer] + computeScores(g)[LightPlayer]

\* C17: the scores of the two players add up to the number of cells of the
\* board that hold a disk.
C17_ScoresCountTheDisks ==
    ScoreSum(grid) = DiskCount(grid)

C17_Witness ==
    /\ view = PointConfirmation
    /\ computeScores(grid)[DarkPlayer] >= 3
    /\ computeScores(grid)[LightPlayer] >= 3
    /\ \E x \in Cols : cell(grid, vector2d(x, 0)) # Blank
    /\ ScoreSum(grid) >= 10

\* C18 as claimed: within a session the sum of the scores never decreases,
\* and a step from PointSelection or PointSelectionComputer to
\* PointConfirmation increases it by one plus the number of disks flipped.
C18_SumGrowsByOnePlusFlips ==
    [][~NewModelStep =>
          LET before == ScoreSum(grid)
              after == ScoreSum(grid')
          IN  /\ after >= before
              /\ PlacementStep => after = before + 1 + Len(disksFlipped')]_vars

\* C18, amended: within a session the sum of the scores never decreases, and
\* each placement increases it by exactly one, whatever the number of disks
\* flipped: a placement of the user in the step from PointSelection to
\* PointConfirmation, a placement of the computer in the step that shows
\* PointSelectionComputer, the step from there to PointConfirmation leaving
\* the sum as it is.
C18_SumGrowsByOne ==
    [][~NewModelStep =>
          LET before == ScoreSum(grid)
              after == ScoreSum(grid')
          IN  IF view = PointSelection /\ view' = PointConfirmation
              THEN after = before + 1
              ELSE IF view = PointConfirmation /\ view' = PointSelectionComputer
              THEN after = before + 1
              ELSE after = before]_vars

\* A placement that flipped three disks or more is on the board, and the sum
\* of the scores is the number of placements so far plus the four disks of
\* the Othello start.
C18_Witness ==
    /\ view = PointConfirmation
    /\ rules = OthelloRules
    /\ Len(disksFlipped) >= 3
    /\ Len(placed) >= 5
    /\ ScoreSum(grid) = 4 + Len(placed)

\* The board a game starts from under rules r: the four centre disks of
\* Othello, or no disk at all.
StartBoard(r) ==
    IF r = OthelloRules THEN ModernStart
    ELSE [i \in Rows |-> [j \in Cols |-> Blank]]

\* C20: the title screen always holds the start board of the selected rules,
\* Dark as the current player and Dark's legal points on that board; the key
\* that starts the game shows PointSelection and changes nothing else; the
\* key that toggles the player mode changes the player mode and nothing else.
C20_TitleScreenStart ==
    /\ [](view = TitleView =>
            /\ grid = StartBoard(rules)
            /\ currentPlayer = DarkPlayer
            /\ Range(availablePoints) = LegalPoints(StartBoard(rules), DarkPlayer, rules))
    /\ [][((view = TitleView /\ view' # TitleView) =>
              (/\ view' = PointSelection
               /\ currentPlayer' = DarkPlayer
               /\ grid' = StartBoard(rules')
               /\ Range(availablePoints') = LegalPoints(grid', DarkPlayer, rules')
               /\ rules' = rules
               /\ playerMode' = playerMode))
           /\ (UpdateTitleView("p") =>
              (/\ playerMode' # playerMode
               /\ UNCHANGED <<grid, selectedPoint, view, currentPlayer,
                              disksFlipped, availablePoints, rules, quit>>))]_vars

\* A game started under the Reversi rules for two players, after both
\* toggles on the title screen.
C20_Witness ==
    /\ view = PointSelection
    /\ placed = <<>>
    /\ rules = ReversiRules
    /\ playerMode = TwoPlayer
    /\ currentPlayer = DarkPlayer
    /\ DiskCount(grid) = 0
    /\ Range(availablePoints) = CentreCells

\* C21: in GameOverView, "enter" gives the title screen of a new game under
\* the same rules and player mode: the start board of those rules, Dark to
\* move, no flipped disks, Dark's legal points on the start board, the
\* selected point of a new model; any other key ends the program and leaves
\* the model as it is.
C21_GameOverRestartOrQuit ==
    [][view = GameOverView =>
          IF UpdateGameOverView("enter")
          THEN /\ view' = TitleView
               /\ grid' = StartBoard(rules)
               /\ currentPlayer' = DarkPlayer
               /\ disksFlipped' = <<>>
               /\ Range(availablePoints') = LegalPoints(StartBoard(rules), DarkPlayer, rules)
               /\ NoDuplicates(availablePoints')
               /\ selectedPoint' = vector2d(3, 3)
               /\ rules' = rules
               /\ playerMode' = playerMode
               /\ quit' = FALSE
          ELSE /\ quit' = TRUE
               /\ UNCHANGED modelVars]_vars

\* The program has ended on a finished Reversi game.
C21_Witness ==
    /\ view = GameOverView
    /\ quit
    /\ rules = ReversiRules
    /\ DiskCount(grid) >= 11

\* C22: QuitConfirmation is entered only from PointSelection, by a step that
\* changes the view alone; from QuitConfirmation a step either ends the
\* program or shows PointSelection, and changes nothing else of the model.
C22_QuitConfirmationKeepsTheGame ==
    [][/\ (view' = QuitConfirmation /\ view # QuitConfirmation) =>
              (/\ view = PointSelection
               /\ UNCHANGED <<grid, selectedPoint, currentPlayer, disksFlipped,
                              availablePoints, rules, playerMode, quit>>)
       /\ view = QuitConfirmation =>
              (/\ \/ quit' = TRUE /\ view' = view
                  \/ quit' = FALSE /\ view' = PointSelection
               /\ UpdateQuitConfirmation("enter") => quit' = TRUE
               /\ UNCHANGED <<grid, selectedPoint, currentPlayer, disksFlipped,
                              availablePoints, rules, playerMode>>)]_vars

\* The program has ended from QuitConfirmation in the middle of a game.
C22_Witness ==
    /\ view = QuitConfirmation
    /\ quit
    /\ Len(placed) >= 3
    /\ selectedPoint # placed[Len(placed)]

\* A step of Update on one of the given keys in the PointSelection view.
MoveStep(keys) == \E msg \in keys : UpdatePointSelection(msg)

\* C23: the selected point is always a point of the board, and a movement key
\* in PointSelection moves it one cell in its direction, from the last column
\* or row round to the first and back, and changes nothing else.
C23_SelectedPointInRange ==
    /\ [](selectedPoint \in Points)
    /\ [][LET x == selectedPoint.x
              y == selectedPoint.y
          IN  /\ MoveStep({"left", "a"}) =>
                    selectedPoint' = vector2d(IF x = 0 THEN gridWidth - 1 ELSE x - 1, y)
              /\ MoveStep({"right", "d"}) =>
                    selectedPoint' = vector2d(IF x = gridWidth - 1 THEN 0 ELSE x + 1, y)
              /\ MoveStep({"up", "w"}) =>
                    selectedPoint' = vector2d(x, IF y = 0 THEN gridHeight - 1 ELSE y - 1)
              /\ MoveStep({"down", "s"}) =>
                    selectedPoint' = vector2d(x, IF y = gridHeight - 1 THEN 0 ELSE y + 1)
              /\ MoveStep({"left", "a", "right", "d", "up", "w", "down", "s"}) =>
                    UNCHANGED <<grid, view, currentPlayer, disksFlipped,
                                availablePoints, rules, playerMode, quit>>]_vars

\* The selected point is in the last column and the first row, farther from
\* its start than from the opposite edges.
C23_Witness ==
    /\ view = PointSelection
    /\ selectedPoint = vector2d(gridWidth - 1, 0)
    /\ Len(placed) >= 1

\* The changes of view a step may make, and the views in which the program
\* may end.
ViewChanges ==
    { <<TitleView, TitleView>>, <<TitleView, PointSelection>>,
      <<PointSelection, PointSelection>>, <<PointSelection, PointConfirmation>>,
      <<PointSelection, QuitConfirmation>>,
      <<QuitConfirmation, PointSelection>>,
      <<PointSelectionComputer, PointConfirmation>>,
      <<PointConfirmation, GameOverView>>, <<PointConfirmation, PassView>>,
      <<PointConfirmation, PointSelection>>,
      <<PointConfirmation, PointSelectionComputer>>,
      <<PassView, PointSelection>>,
      <<GameOverView, TitleView>> }

\* C24: every step either keeps the program running and makes one of the
\* listed changes of view, or ends the program from QuitConfirmation or
\* GameOverView.
C24_OnlyListedViewChanges ==
    [][IF quit' # quit
       THEN /\ quit' = TRUE
            /\ view \in {QuitConfirmation, GameOverView}
            /\ view' = view
       ELSE <<view, view'>> \in ViewChanges]_vars

\* The PassView is shown in a game of two players.
C24_Witness ==
    /\ view = PassView
    /\ playerMode = TwoPlayer
    /\ Len(placed) >= 8
    /\ ~quit

\* C25: acknowledging PointConfirmation or PassView gives the turn to the
\* other player, a new model gives it to Dark, and no other step changes the
\* current player.
C25_CurrentPlayerChanges ==
    [][IF NewModelStep THEN currentPlayer' = DarkPlayer
       ELSE IF view \in {PointConfirmation, PassView}
       THEN currentPlayer' = opponentOf(currentPlayer)
       ELSE currentPlayer' = currentPlayer]_vars

\* Light has placed a disk, acknowledged it, and the turn is Dark's again.
C25_Witness ==
    /\ view = PointSelection
    /\ currentPlayer = DarkPlayer
    /\ Len(placed) = 2
    /\ cell(grid, placed[2]) = LightPlayer

C27_BestPointHasCandidates ==
    [][(view = PointConfirmation /\ view' = PointSelectionComputer) =>
          /\ LegalPoints(grid, currentPlayer', rules) # {}
          /\ availablePoints' # <<>>
          /\ Contains(availablePoints', selectedPoint')
          /\ selectedPoint' \in LegalPoints(grid, currentPlayer', rules)]_vars

\* The computer has one legal point only, and it is selected.
C27_Witness ==
    /\ view = PointSelectionComputer
    /\ Len(availablePoints) = 1
    /\ selectedPoint = availablePoints[1]

\* C28 as claimed: when the next turn has begun, in PointSelection after a
\* placement, in PointSelectionComputer or in PassView, the record of flipped
\* disks is empty.
C28_FlipRecordDiscarded ==
    (/\ view \in {PointSelection, PointSelectionComputer, PassView}
     /\ placed # <<>>) => disksFlipped = <<>>

\* C28, amended: the record of flipped disks is changed only by a placement,
\* which sets it to the disks that placement captures, and by a new model,
\* which empties it; acknowledging PointConfirmation keeps it, so that under
\* the Othello rules, where every placement flips a disk, it is not empty in
\* any view once a disk has been placed, and every disk in it was flipped to
\* the player of the last placement and is still a disk.
C28_FlipRecordKeptUntilNextPlacement ==
    /\ [][IF NewModelStep THEN disksFlipped' = <<>>
          ELSE IF PlacementStep
          THEN Range(disksFlipped') = Captured(grid, selectedPoint, currentPlayer)
          ELSE disksFlipped' = disksFlipped]_vars
    /\ []((rules = OthelloRules /\ placed # <<>>) =>
            /\ disksFlipped # <<>>
            /\ \A k \in 1 .. Len(disksFlipped) : cell(grid, disksFlipped[k]) # Blank)

\* The next player is to select a point and the record still holds the disks
\* the previous placement flipped.
C28_Witness ==
    /\ view = PointSelection
    /\ placed # <<>>
    /\ Len(disksFlipped) >= 2
    /\ \A k \in 1 .. Len(disksFlipped) :
          cell(grid, disksFlipped[k]) = opponentOf(currentPlayer)

\* C29: in PointSelection and PointSelectionComputer the stored available
\* points are not empty, and in PointSelection the current player has a legal
\* point on the board.
C29_SelectionHasAPoint ==
    /\ view \in {PointSelection, PointSelectionComputer} => availablePoints # <<>>
    /\ view = PointSelection => LegalPoints(grid, currentPlayer, rules) # {}

\* The player who got the turn after the opponent's pass has one legal point
\* or more.
C29_Witness ==
    /\ view = PointSelection
    /\ Len(placed) >= 8
    /\ LegalPoints(grid, opponentOf(currentPlayer), rules) = {}
    /\ Len(availablePoints) >= 1
    /\ cell(grid, placed[Len(placed)]) = currentPlayer

\* A game is being played.
InGame == view \in {PointSelection, PointSelectionComputer, PointConfirmation, PassView}

\* The user answers: the program is not left for ever in PointSelection (or
\* in the QuitConfirmation reached from it) without an accepted Select, nor
\* in PointConfirmation, PointSelectionComputer or PassView without a key.
Answered ==
    /\ []<>(view \notin {PointSelection, QuitConfirmation})
    /\ []<>(view # PointConfirmation)
    /\ []<>(view # PointSelectionComputer)
    /\ []<>(view # PassView)

C31_FlipRecordOfAPlacement ==
    [][PlacementStep =>
          LET before == Emptied(grid, selectedPoint)
              P == currentPlayer
              bootstrap == rules = ReversiRules /\ DiskCount(before) < 4
          IN  /\ getPointsToFlip(flipSelectedPoint(before, selectedPoint, P),
                                 selectedPoint, P)
                   = getPointsToFlip(before, selectedPoint, P)
              /\ disksFlipped' = getPointsToFlip(before, selectedPoint, P)
              /\ bootstrap => disksFlipped' = <<>>
              /\ ~bootstrap => disksFlipped' # <<>>]_vars

\* The first placement after the four centre disks of a Reversi game, with
\* the disks it flipped.
C31_Witness ==
    /\ view = PointConfirmation
    /\ rules = ReversiRules
    /\ Len(placed) = 5
    /\ disksFlipped # <<>>
    /\ selectedPoint \notin CentreCells

\* C32: a placement of player P that flips n disks gives P's score n + 1
\* more and the opponent's score n less than on the board before the disk
\* was written, leaves one disk more on the board, and every disk it flips
\* was the opponent's; for the computer the board before the disk was
\* written is the board of the acknowledged PointConfirmation.
C32_ScoresAcrossAPlacement ==
    [][/\ PlacementStep =>
             LET before == Emptied(grid, selectedPoint)
                 P == currentPlayer
                 Q == opponentOf(currentPlayer)
                 n == Len(disksFlipped')
             IN  /\ computeScores(grid')[P] = computeScores(before)[P] + 1 + n
                 /\ computeScores(grid')[Q] = computeScores(before)[Q] - n
                 /\ DiskCount(grid') = DiskCount(before) + 1
                 /\ NoDuplicates(disksFlipped')
                 /\ \A k \in 1 .. n : cell(before, disksFlipped'[k]) = Q
       /\ (view = PointConfirmation /\ view' = PointSelectionComputer) =>
             /\ cell(grid, selectedPoint') = Blank
             /\ Emptied(grid', selectedPoint') = grid]_vars

\* The computer's placement has flipped two disks or more and left Dark with
\* fewer disks than Light.
C32_Witness ==
    /\ view = PointConfirmation
    /\ playerMode = OnePlayer
    /\ currentPlayer = LightPlayer
    /\ Len(disksFlipped) >= 2
    /\ computeScores(grid)[LightPlayer] > computeScores(grid)[DarkPlayer] + 1

\* C33: under the Reversi rules, a board with fewer than four disks has them
\* all in the four centre cells and GameOverView is not shown; a board with
\* four disks or more has a disk in each centre cell; and on a board with
\* exactly four disks each player owns two.
C33_ReversiCentreSquare ==
    rules = ReversiRules =>
        /\ DiskCount(grid) < 4 =>
              /\ \A p \in Points : cell(grid, p) # Blank => p \in CentreCells
              /\ view # GameOverView
        /\ DiskCount(grid) >= 4 =>
              \A p \in CentreCells : cell(grid, p) # Blank
        /\ DiskCount(grid) = 4 =>
              /\ computeScores(grid)[DarkPlayer] = 2
              /\ computeScores(grid)[LightPlayer] = 2

\* The four centre disks of a Reversi game are placed and Dark is to select
\* the first point outside the centre.
C33_Witness ==
    /\ rules = ReversiRules
    /\ view = PointSelection
    /\ DiskCount(grid) = 4
    /\ Len(placed) = 4
    /\ currentPlayer = DarkPlayer
    /\ Range(availablePoints) \cap CentreCells = {}

\* C34: in GameOverView the current player has no legal point on the board,
\* and under the Othello rules the other player has none either.
C34_GameOverWithoutMoves ==
    view = GameOverView =>
        /\ LegalPoints(grid, currentPlayer, rules) = {}
        /\ availablePoints = <<>>
        /\ rules = OthelloRules =>
              LegalPoints(grid, opponentOf(currentPlayer), rules) = {}

\* A Reversi game is over for two players with Dark, who has no legal point,
\* as the current player.
C34_Witness ==
    /\ view = GameOverView
    /\ rules = ReversiRules
    /\ playerMode = TwoPlayer
    /\ currentPlayer = DarkPlayer
    /\ availablePoints = <<>>
    /\ Len(placed) >= 11

\* C35: PointSelectionComputer is shown only in the mode of one player and
\* with Light as the current player, whose disk is at the selected point.
C35_ComputerPlaysLightOnly ==
    view = PointSelectionComputer =>
        /\ playerMode = OnePlayer
        /\ currentPlayer = LightPlayer
        /\ cell(grid, selectedPoint) = LightPlayer

\* The computer's sixth disk or a later one is at the selected point.
C35_Witness ==
    /\ view = PointSelectionComputer
    /\ playerMode = OnePlayer
    /\ Len(placed) >= 11
    /\ cell(grid, selectedPoint) = LightPlayer

\* The player of the last placement: the owner of the disk at the point
\* placed last, which no step before the next placement flips.
LastMover == cell(grid, placed[Len(placed)])

\* A point is to be selected by the player who made the last placement.
SameAgain ==
    /\ view \in {PointSelection, PointSelectionComputer, QuitConfirmation}
    /\ placed # <<>>
    /\ currentPlayer = LastMover

\* C36: the first placement of a game is Dark's; the disk placed last is owned
\* by the player who placed it until the next placement; under the Reversi
\* rules a placement is never by the player of the placement before; and the
\* turn comes to the player of the last placement only by the step that
\* leaves the PassView shown for the other player, under the Othello rules,
\* PassView being entered only from PointConfirmation and left in one step,
\* and PointConfirmation being entered only by a placement.
C36_PlacementsAlternate ==
    /\ []((view = PointConfirmation /\ placed # <<>>) =>
            /\ selectedPoint = placed[Len(placed)]
            /\ currentPlayer = LastMover)
    /\ [][/\ (PlacementStep /\ placed = <<>>) => currentPlayer = DarkPlayer
          /\ (PlacementStep /\ placed # <<>> /\ rules = ReversiRules) =>
                currentPlayer # LastMover
          /\ (PlacementStep /\ placed # <<>> /\ currentPlayer = LastMover) =>
                (rules = OthelloRules /\ SameAgain)
          /\ (SameAgain' /\ ~SameAgain) =>
                (/\ view = PassView
                 /\ rules = OthelloRules
                 /\ currentPlayer = opponentOf(LastMover))
          /\ view = PassView => view' = PointSelection
          /\ (view' = PassView /\ view # PassView) => view = PointConfirmation
          /\ (view' = PointConfirmation /\ view # PointConfirmation) =>
                (PlacementStep /\ placed' = Append(placed, selectedPoint))
          /\ (~PlacementStep /\ ~NewModelStep /\ placed # <<>>) =>
                (placed' = placed /\ LastMover' = LastMover)]_vars

\* Light has placed, Dark has passed, and Light is to select again in a game
\* of two players.
C36_Witness ==
    /\ SameAgain
    /\ view = PointSelection
    /\ playerMode = TwoPlayer
    /\ currentPlayer = LightPlayer
    /\ rules = OthelloRules

====
